---- MODULE Spec2Model ----
(***************************************************************************)
(* Model of the fuzzy record-matching engine of Excels-Columns-Merger      *)
(* (src/excel_merger/matching.py).                                         *)
(*                                                                         *)
(* A text is a sequence of one-character strings.  A missing cell value    *)
(* (pandas NA / NaN / None) is the value NA.  Row positions are zero-based *)
(* as in the source; TLA+ sequences are one-based, so row p of a list is   *)
(* element p + 1.  A float score is the exact rational it rounds, kept as  *)
(* a pair <<numerator, denominator>> in lowest terms.                      *)
(***************************************************************************)
EXTENDS Integers, Sequences, FiniteSets, TLC

\* ------------------------------------------------------------------------
\* Bounds of the model
\* ------------------------------------------------------------------------
MaxLeftRows == 2
MaxRightRows == 1
MaxTextLen == 3
LongRightRows == 9
ManyLeftRows == 401

\* ------------------------------------------------------------------------
\* Values
\* ------------------------------------------------------------------------
\* NA is the missing cell value, told apart from every text.  None stands for
\* Python's None where the source holds an integer or None (a row position,
\* the progress step); no position of the model is negative and no step is
\* -1.
NA == <<"NA">>
None == -1

\* Characters of the raw texts: a lower-case letter, an upper-case letter
\* and two different whitespace characters.
Alphabet == {"a", "B", " ", "\t"}

IsSpace(c) == c \in {" ", "\t"}

LowerChar(c) == IF c = "B" THEN "b" ELSE IF c = "A" THEN "a" ELSE c

\* All texts over Alphabet of length at most n.
TextsUpTo(n) == UNION {[1..k -> Alphabet] : k \in 0..n}

\* ------------------------------------------------------------------------
\* normalize_text (matching.py:30-34)
\* ------------------------------------------------------------------------
RECURSIVE LStrip(_)
LStrip(s) ==
    IF s = <<>> THEN <<>>
    ELSE IF IsSpace(Head(s)) THEN LStrip(Tail(s)) ELSE s

RECURSIVE RStrip(_)
RStrip(s) ==
    IF s = <<>> THEN <<>>
    ELSE IF IsSpace(s[Len(s)]) THEN RStrip(SubSeq(s, 1, Len(s) - 1)) ELSE s

\* str.strip()
Strip(s) == RStrip(LStrip(s))

\* A strip that removes blanks only, as str.strip(" ") would.
RECURSIVE StripBlanksOnly(_)
StripBlanksOnly(s) ==
    IF s = <<>> THEN <<>>
    ELSE IF Head(s) = " " THEN StripBlanksOnly(Tail(s))
    ELSE IF s[Len(s)] = " " THEN StripBlanksOnly(SubSeq(s, 1, Len(s) - 1))
    ELSE s

\* str.lower()
Lower(s) == [i \in 1..Len(s) |-> LowerChar(s[i])]

\* re.sub(r"\s+", " ", text): of every run of whitespace characters the first
\* stays, as a blank, and the others go.
CollapseWs(s) ==
    LET marked == [i \in 1..Len(s) |-> <<s[i], i > 1 /\ IsSpace(s[i - 1])>>]
        kept == SelectSeq(marked, LAMBDA m : ~(IsSpace(m[1]) /\ m[2]))
    IN  [k \in 1..Len(kept) |-> IF IsSpace(kept[k][1]) THEN " " ELSE kept[k][1]]

normalize_text_blank_strip(value) ==
    IF value = NA THEN <<>> ELSE CollapseWs(Lower(StripBlanksOnly(value)))

normalize_text(value) ==
    IF value = NA THEN <<>> ELSE CollapseWs(Lower(Strip(value)))

\* ------------------------------------------------------------------------
\* Scores: exact rationals <<n, d>> in lowest terms
\* ------------------------------------------------------------------------
RECURSIVE GCD(_, _)
GCD(m, n) == IF n = 0 THEN m ELSE GCD(n, m % n)

Frac(n, d) == IF n = 0 THEN <<0, 1>> ELSE <<n \div GCD(n, d), d \div GCD(n, d)>>

Zero == Frac(0, 1)
One == Frac(1, 1)
Half == Frac(1, 2)

FracLess(x, y) == x[1] * y[2] < y[1] * x[2]
FracLeq(x, y) == x[1] * y[2] <= y[1] * x[2]

\* 2^k modulo d
RECURSIVE PowerOfTwoMod(_, _)
PowerOfTwoMod(k, d) == IF k = 0 THEN 1 % d ELSE (2 * PowerOfTwoMod(k - 1, d)) % d

\* The exponent that brings a score of ]0, 1] into [1, 2[.
RECURSIVE BinaryShift(_, _)
BinaryShift(x, s) == IF x[1] * s >= x[2] THEN 0 ELSE 1 + BinaryShift(x, 2 * s)

\* The score is a float, the double nearest to the quotient: what is left
\* of the quotient, in units of 1 / x[2], after its 53 leading binary
\* digits.  Zero: the double is the quotient; more than a half: the double
\* is above it; less: below.
FloatRest(x) ==
    (((x[1] * PowerOfTwoMod(BinaryShift(x, 1), x[2])) % x[2])
     * PowerOfTwoMod(52, x[2])) % x[2]

\* round(best_score, 4), in ten-thousandths: the nearest one to the float,
\* and of two that are as near, which happens for a score of k / 32 only,
\* the even one.  A quotient halfway between two ten-thousandths that no
\* float holds (k / 160, k / 800, ...) goes to the side of its float.
Round4(x) ==
    LET q == (10000 * x[1]) \div x[2]
        r == (10000 * x[1]) % x[2]
    IN  IF 2 * r < x[2] THEN q
        ELSE IF 2 * r > x[2] THEN q + 1
        ELSE IF FloatRest(x) = 0 THEN (IF q % 2 = 0 THEN q ELSE q + 1)
        ELSE IF 2 * FloatRest(x) > x[2] THEN q + 1
        ELSE q

\* ------------------------------------------------------------------------
\* _similarity_ratio (matching.py:65-68)
\* ------------------------------------------------------------------------
Max(S) == CHOOSE x \in S : \A y \in S : y <= x
Min(S) == CHOOSE x \in S : \A y \in S : x <= y

\* difflib's automatic junk heuristic: in a second text of 200 characters or
\* more, the characters that occur more than len(b) // 100 + 1 times are
\* "popular" and are dropped from the table that starts the matches.
PopularChars(b) ==
    IF Len(b) >= 200
    THEN {c \in {b[j] : j \in 1..Len(b)} :
            Cardinality({j \in 1..Len(b) : b[j] = c}) > Len(b) \div 100 + 1}
    ELSE {}

\* Length of the run of equal characters, none of them in skip, that starts
\* at a[i], b[j] and stays within a[..ahi], b[..bhi].
RECURSIVE CommonAt(_, _, _, _, _, _, _)
CommonAt(a, b, i, j, ahi, bhi, skip) ==
    IF i > ahi \/ j > bhi THEN 0
    ELSE IF a[i] # b[j] \/ b[j] \in skip THEN 0
    ELSE 1 + CommonAt(a, b, i + 1, j + 1, ahi, bhi, skip)

\* Length of the run of equal characters that ends just before a[i], b[j]
\* and stays within a[alo..], b[blo..].
RECURSIVE CommonBefore(_, _, _, _, _, _)
CommonBefore(a, b, i, j, alo, blo) ==
    IF i <= alo \/ j <= blo THEN 0
    ELSE IF a[i - 1] # b[j - 1] THEN 0
    ELSE 1 + CommonBefore(a, b, i - 1, j - 1, alo, blo)

\* difflib.SequenceMatcher.find_longest_match on a[alo..ahi], b[blo..bhi]
\* (isjunk is None): the longest common block free of popular characters,
\* of those the one starting earliest in a, of those the one starting
\* earliest in b, or the empty block at alo, blo; then the block is extended
\* on both sides by the equal characters next to it, popular ones included.
FindLongestMatch(a, b, alo, ahi, blo, bhi, popular) ==
    LET k == Max({0} \cup {CommonAt(a, b, i, j, ahi, bhi, popular) :
                            i \in alo..ahi, j \in blo..bhi})
        i0 == IF k = 0 THEN alo
              ELSE Min({x \in alo..ahi :
                          \E y \in blo..bhi : CommonAt(a, b, x, y, ahi, bhi, popular) = k})
        j0 == IF k = 0 THEN blo
              ELSE Min({y \in blo..bhi : CommonAt(a, b, i0, y, ahi, bhi, popular) = k})
        before == CommonBefore(a, b, i0, j0, alo, blo)
        after == CommonAt(a, b, i0 + k, j0 + k, ahi, bhi, {})
    IN  <<i0 - before, j0 - before, before + k + after>>

\* Sum of the sizes of SequenceMatcher.get_matching_blocks(): the longest
\* block, then recursively the pieces to its left and to its right.
RECURSIVE MatchingBlocks(_, _, _, _, _, _, _)
MatchingBlocks(a, b, alo, ahi, blo, bhi, popular) ==
    IF alo > ahi \/ blo > bhi THEN 0
    ELSE LET m == FindLongestMatch(a, b, alo, ahi, blo, bhi, popular)
         IN  IF m[3] = 0 THEN 0
             ELSE m[3]
                  + MatchingBlocks(a, b, alo, m[1] - 1, blo, m[2] - 1, popular)
                  + MatchingBlocks(a, b, m[1] + m[3], ahi, m[2] + m[3], bhi, popular)

MatchingChars(a, b) == MatchingBlocks(a, b, 1, Len(a), 1, Len(b), PopularChars(b))

\* SequenceMatcher(None, a, b).ratio() = 2.0 * matches / (len(a) + len(b)),
\* and 1.0 when both are empty.
DifflibRatio(a, b) ==
    IF Len(a) + Len(b) = 0 THEN One
    ELSE Frac(2 * MatchingChars(a, b), Len(a) + Len(b))

\* Length of the longest common subsequence.
\* Length of the longest common subsequence of short and long: the first
\* character of short is left out, or paired with its first occurrence in
\* long (no later occurrence allows a longer subsequence).
RECURSIVE LCSFrom(_, _)
LCSFrom(short, long) ==
    IF short = <<>> \/ long = <<>> THEN 0
    ELSE LET skipped == LCSFrom(Tail(short), long)
             found == {j \in 1..Len(long) : long[j] = Head(short)}
         IN  IF found = {} THEN skipped
             ELSE LET paired == 1 + LCSFrom(Tail(short),
                                          SubSeq(long, Min(found) + 1, Len(long)))
                  IN  IF paired >= skipped THEN paired ELSE skipped

LCSLen(a, b) == IF Len(a) <= Len(b) THEN LCSFrom(a, b) ELSE LCSFrom(b, a)

\* rapidfuzz.fuzz.ratio(a, b) / 100.0: the normalized indel similarity
\* 2 * LCS / (len(a) + len(b)), and 1.0 when both are empty.
RapidfuzzRatio(a, b) ==
    IF Len(a) + Len(b) = 0 THEN One
    ELSE Frac(2 * LCSLen(a, b), Len(a) + Len(b))

\* rapidfuzz_present: whether the optional import of matching.py:9-12
\* succeeded.
similarity_ratio(left_text, right_text, use_rapidfuzz, rapidfuzz_present) ==
    IF use_rapidfuzz /\ rapidfuzz_present
    THEN RapidfuzzRatio(left_text, right_text)
    ELSE DifflibRatio(left_text, right_text)

\* ------------------------------------------------------------------------
\* combine_columns and the blocking indexes (matching.py:37-62)
\* ------------------------------------------------------------------------
Range(f) == {f[x] : x \in DOMAIN f}

\* " ".join(cells)
RECURSIVE JoinBlank(_)
JoinBlank(cells) ==
    IF cells = <<>> THEN <<>>
    ELSE IF Len(cells) = 1 THEN cells[1]
    ELSE cells[1] \o <<" ">> \o JoinBlank(Tail(cells))

\* .fillna("")
FillNa(cell) == IF cell = NA THEN <<>> ELSE cell

\* One text per row, in row order: all empty when no column is selected,
\* otherwise the selected cells joined by a blank and normalized once.
combine_columns(df, selected_cols) ==
    IF selected_cols = <<>>
    THEN [i \in 1..Len(df) |-> <<>>]
    ELSE [i \in 1..Len(df) |->
            normalize_text(JoinBlank([k \in 1..Len(selected_cols) |->
                                        FillNa(df[i][selected_cols[k]])]))]

\* str.split(): the maximal runs of non-whitespace characters, in order.
Split(s) ==
    LET positions == [i \in 1..Len(s) |-> i]
        starts == SelectSeq(positions,
                            LAMBDA i : ~IsSpace(s[i]) /\ (i = 1 \/ IsSpace(s[i - 1])))
        ends == SelectSeq(positions,
                          LAMBDA i : ~IsSpace(s[i]) /\ (i = Len(s) \/ IsSpace(s[i + 1])))
    IN  [k \in 1..Len(starts) |-> SubSeq(s, starts[k], ends[k])]

\* A dict: a function on its keys.  EmptyDict has no key.
EmptyDict == [k \in {} |-> 0]
Put(d, k, v) == [x \in (DOMAIN d) \cup {k} |-> IF x = k THEN v ELSE d[x]]

\* token_index[token].add(pos) for every token of one text
AddTokens(index, tokens, pos) ==
    [token \in (DOMAIN index) \cup Range(tokens) |->
        (IF token \in DOMAIN index THEN index[token] ELSE {})
            \cup (IF token \in Range(tokens) THEN {pos} ELSE {})]

RECURSIVE TokenIndexFrom(_, _, _)
TokenIndexFrom(text_values, pos, index) ==
    IF pos = Len(text_values) THEN index
    ELSE TokenIndexFrom(text_values, pos + 1,
                        AddTokens(index, Split(text_values[pos + 1]), pos))

build_token_index(text_values) == TokenIndexFrom(text_values, 0, EmptyDict)

\* exact_index[text].append(pos) for every row whose text is not empty
RECURSIVE ExactIndexFrom(_, _, _)
ExactIndexFrom(text_values, pos, index) ==
    IF pos = Len(text_values) THEN index
    ELSE LET text == text_values[pos + 1]
             old == IF text \in DOMAIN index THEN index[text] ELSE <<>>
         IN  IF text # <<>>
             THEN ExactIndexFrom(text_values, pos + 1, Put(index, text, Append(old, pos)))
             ELSE ExactIndexFrom(text_values, pos + 1, index)

\* The same loop skipped the "if text:" guard.
RECURSIVE ExactIndexAllFrom(_, _, _)
ExactIndexAllFrom(text_values, pos, index) ==
    IF pos = Len(text_values) THEN index
    ELSE LET text == text_values[pos + 1]
             old == IF text \in DOMAIN index THEN index[text] ELSE <<>>
         IN  ExactIndexAllFrom(text_values, pos + 1, Put(index, text, Append(old, pos)))

build_exact_index_unguarded(text_values) == ExactIndexAllFrom(text_values, 0, EmptyDict)

\* The same loop with an assignment exact_index[text] = [pos] for the append.
RECURSIVE ExactIndexLastFrom(_, _, _)
ExactIndexLastFrom(text_values, pos, index) ==
    IF pos = Len(text_values) THEN index
    ELSE LET text == text_values[pos + 1]
         IN  IF text # <<>>
             THEN ExactIndexLastFrom(text_values, pos + 1, Put(index, text, <<pos>>))
             ELSE ExactIndexLastFrom(text_values, pos + 1, index)

build_exact_index_last_only(text_values) == ExactIndexLastFrom(text_values, 0, EmptyDict)

\* The loop started at row 1 instead of row 0.
build_exact_index_skip_first(text_values) ==
    ExactIndexFrom(text_values, IF Len(text_values) = 0 THEN 0 ELSE 1, EmptyDict)

build_exact_index(text_values) == ExactIndexFrom(text_values, 0, EmptyDict)

\* ------------------------------------------------------------------------
\* Inputs of run_matching
\* ------------------------------------------------------------------------
\* A row maps the column names c1, c2 to a raw text or NA.
RowE == [c1 |-> NA, c2 |-> <<"\t", " ">>]
RowP == [c1 |-> <<" ", "B">>, c2 |-> <<"a">>]
RowQ == [c1 |-> <<"a">>, c2 |-> <<"B", "a">>]
RowValues == {RowE, RowP, RowQ}

\* A cell of 201 characters, "a a ... a": long enough for difflib to treat
\* its characters as popular.
LongText == [i \in 1..201 |-> IF i % 2 = 1 THEN "a" ELSE " "]
RowJ == [c1 |-> LongText, c2 |-> NA]

SeqsUpTo(S, n) == UNION {[1..k -> S] : k \in 0..n}

\* Right datasets of LongRightRows rows, all of empty text but the first and
\* the last: the last position shares the table slot of position 0.
LongRightDatasets ==
    {[i \in 1..LongRightRows |->
        IF i = 1 THEN first ELSE IF i = LongRightRows THEN last ELSE RowE] :
            first \in RowValues, last \in RowValues}

\* A right dataset whose posting sets have five positions together, three
\* of them in the same slot of a table of 8: the update of the candidate
\* set with the second posting set resizes its table.
ResizingDatasets ==
    {[i \in 1..17 |-> IF i \in {1, 9, 17} THEN RowQ
                      ELSE IF i \in {2, 10} THEN RowP ELSE RowE]}

\* A left dataset long enough for a default progress step above 1.
ManyLeftDatasets == {[i \in 1..ManyLeftRows |-> RowE]}

\* Right datasets that hold the long cell, alone or after a short row.
LongTextDatasets == {<<RowJ>>, <<RowP, RowJ>>}

MatchColChoices == {<<>>, <<"c1">>, <<"c1", "c2">>}
left_output_cols == <<"c1", "c2">>
right_output_cols == <<"c1">>

Thresholds == {Zero, Half, One}

\* progress_callback given or not, and progress_update_every: left to its
\* default, or an explicit step, which the code takes as it comes, 0 or
\* negative included.
ExplicitProgressStep == 2
ProgressChoices ==
    {<<FALSE, None>>, <<TRUE, None>>, <<FALSE, 0>>}
        \cup {<<TRUE, step>> :
                 step \in {ExplicitProgressStep, 0, -ExplicitProgressStep}}

VARIABLES
    \* arguments of run_matching, and whether rapidfuzz could be imported
    left_df, right_df, left_match_cols, right_match_cols, threshold,
    include_unmatched, prefer_rapidfuzz, progress_callback,
    progress_update_every_arg, rapidfuzz_fuzz,
    \* locals of run_matching
    pc, similarity_enabled, left_text_values, right_text_values,
    token_index, exact_index, use_rapidfuzz, rows, best_scores,
    best_positions, exact_match_count, candidate_comparisons, total_rows,
    progress_update_every, left_pos,
    \* the calls made to progress_callback, the order in which each row's
    \* candidate set was enumerated, and the returned MatchResult
    progress_calls, candidate_orders, result,
    \* the number of calls of run_matching begun so far
    calls,
    \* normalization of a single text
    npc, nx, ny, nz,
    \* the preset file, and for each client of the preset store its request,
    \* its position in it and its local presets dict
    preset_file, request, ppc, presets,
    \* two calls of run_matching in progress at once: the call whose locals
    \* are not in the variables above, which of the two calls is in them,
    \* whether both calls were ever in their loops together, and what the
    \* two calls returned
    other_run, active, overlapped, returned

frames == <<left_df, right_df>>
selections == <<left_match_cols, right_match_cols>>
settings == <<threshold, include_unmatched, prefer_rapidfuzz, progress_callback,
              progress_update_every_arg, rapidfuzz_fuzz>>
inputs == <<frames, selections, settings>>
indexes == <<similarity_enabled, left_text_values, right_text_values,
             token_index, exact_index, use_rapidfuzz, total_rows,
             progress_update_every>>
decisions == <<best_scores, best_positions, exact_match_count,
               candidate_comparisons, candidate_orders>>
nvars == <<npc, nx, ny, nz>>
pvars == <<preset_file, request, ppc, presets>>
tvars == <<other_run, active, overlapped, returned>>
vars == <<inputs, indexes, decisions, pc, rows, left_pos, progress_calls,
          result, calls, nvars, pvars, tvars>>

\* json.dumps(presets, indent=2, sort_keys=True) of presets.py:23, by its
\* length in bytes.  A payload is the settings {"v": payload}, so that an
\* entry is the three lines
\*   "name": {
\*     "v": "payload"
\*   }
\* each entry after a newline, a comma between two entries, and the empty
\* dict is the two bytes {}.
PayloadBytes(payload) == 17 + Len(payload)

EntryBytes(name, payload) == 3 + (Len(name) + 2) + 2 + PayloadBytes(payload)

RECURSIVE EntriesBytes(_, _)
EntriesBytes(dict, names) ==
    IF names = {} THEN 0
    ELSE LET name == CHOOSE n \in names : TRUE
         IN  EntryBytes(name, dict[name]) + EntriesBytes(dict, names \ {name})

DocBytes(dict) ==
    IF DOMAIN dict = {} THEN 2
    ELSE 1 + EntriesBytes(dict, DOMAIN dict) + (Cardinality(DOMAIN dict) - 1) + 2

\* The preset file: the presets of the last complete document written to
\* it, whether its bytes are one complete JSON document, and its length in
\* bytes.
EmptyFile == [content |-> EmptyDict, whole |-> FALSE, size |-> 0]
FileOf(dict) == [content |-> dict, whole |-> TRUE, size |-> DocBytes(dict)]

MaxClients == 2
Clients == 1..MaxClients
NoRequest == [kind |-> "none", name |-> "none", payload |-> "none"]

\* No client of the preset store is at work.
PresetsIdle ==
    /\ preset_file = FileOf(EmptyDict)
    /\ request = [c \in Clients |-> NoRequest]
    /\ ppc = [c \in Clients |-> "done"]
    /\ presets = [c \in Clients |-> EmptyDict]

\* One call of run_matching at a time.
NoRun == [pc |-> "none"]
NoOtherRun ==
    /\ other_run = NoRun
    /\ active = 1
    /\ overlapped = FALSE
    /\ returned = <<>>

InitLocals ==
    /\ pc = "start"
    /\ similarity_enabled = FALSE
    /\ left_text_values = <<>>
    /\ right_text_values = <<>>
    /\ token_index = EmptyDict
    /\ exact_index = EmptyDict
    /\ use_rapidfuzz = FALSE
    /\ rows = <<>>
    /\ best_scores = <<>>
    /\ best_positions = <<>>
    /\ exact_match_count = 0
    /\ candidate_comparisons = 0
    /\ total_rows = 0
    /\ progress_update_every = None
    /\ left_pos = 0
    /\ progress_calls = <<>>
    /\ candidate_orders = <<>>
    /\ result = <<>>
    /\ calls = 0

Init ==
    \* short datasets of every shape, or one left row against a long right
    \* dataset, with every choice of the other arguments and the default
    \* progress step; or every progress step on short and long left datasets
    /\ \/ /\ \/ /\ left_df \in SeqsUpTo(RowValues, MaxLeftRows)
                /\ right_df \in SeqsUpTo(RowValues, MaxRightRows)
             \/ /\ left_df \in {<<row>> : row \in RowValues}
                /\ right_df \in LongRightDatasets \cup LongTextDatasets
                                   \cup ResizingDatasets
          /\ left_match_cols \in MatchColChoices
          /\ right_match_cols \in MatchColChoices
          /\ threshold \in Thresholds
          /\ include_unmatched \in BOOLEAN
          /\ prefer_rapidfuzz \in BOOLEAN
          /\ rapidfuzz_fuzz \in BOOLEAN
          /\ \E c \in {d \in ProgressChoices : d[2] = None} :
                /\ progress_callback = c[1]
                /\ progress_update_every_arg = c[2]
       \/ /\ left_df \in SeqsUpTo({RowE}, MaxLeftRows + 1) \cup ManyLeftDatasets
          /\ right_df \in SeqsUpTo({RowE}, MaxRightRows)
          /\ left_match_cols \in {<<>>, <<"c1">>}
          /\ right_match_cols = left_match_cols
          /\ threshold = Half
          /\ include_unmatched = FALSE
          /\ prefer_rapidfuzz = FALSE
          /\ rapidfuzz_fuzz = FALSE
          /\ \E c \in ProgressChoices :
                /\ progress_callback = c[1]
                /\ progress_update_every_arg = c[2]
    /\ InitLocals
    /\ NoOtherRun
    /\ npc = "idle" /\ nx = <<>> /\ ny = <<>> /\ nz = <<>>
    /\ PresetsIdle

\* ------------------------------------------------------------------------
\* run_matching (matching.py:71-215)
\* ------------------------------------------------------------------------
\* df[cols].to_dict("records")[pos]
OutputRecord(df, cols, pos) == [c \in Range(cols) |-> df[pos + 1][c]]
NaRecord(cols) == [c \in Range(cols) |-> NA]

DefaultProgressStep(total) == IF total \div 200 >= 1 THEN total \div 200 ELSE 1

Abs(n) == IF n < 0 THEN -n ELSE n

\* matching.py:120 and :200, for a step other than 0: Python's remainder
\* by a negative step is 0 for the multiples of the step.
ProgressDueOnlyAtEnd(done_rows, every, total) ==
    done_rows % Abs(every) = 0 /\ done_rows = total

ProgressDue(done_rows, every, total) ==
    done_rows % Abs(every) = 0 \/ done_rows = total

\* matching.py:119-120 and :199-200: with a callback the remainder by the
\* step is computed after every row; by a step of 0 it raises.
RaisesZeroDivision == progress_callback /\ progress_update_every = 0

\* The progress calls after row left_pos has been processed.
ProgressAfterRow ==
    IF RaisesZeroDivision THEN progress_calls
    ELSE IF progress_callback
            /\ ProgressDue(left_pos + 1, progress_update_every, total_rows)
    THEN Append(progress_calls, <<left_pos + 1, total_rows>>)
    ELSE progress_calls

\* Where the run is after the progress tick of a row, and what it has given
\* to its caller.
PcAfterRow == IF RaisesZeroDivision THEN "raised" ELSE pc
ResultAfterRow == IF RaisesZeroDivision THEN <<"ZeroDivisionError">> ELSE result

\* matching.py:88-89 and :137-138, a frame without rows with columns
\* selected: pandas has no row to join, and what agg(" ".join, axis=1)
\* gives then is not the same in every pandas: an empty Series, and the run
\* goes on with no text, or a copy of the empty frame, which has no tolist
\* (AttributeError before the first progress call).  A frame with rows, or
\* no column selected, gives the Series of texts.
CombineOutcomes(df, selected_cols) ==
    IF selected_cols # <<>> /\ Len(df) = 0 THEN {"series", "frame"} ELSE {"series"}

\* The frame given to combine_columns, after it (matching.py:37-46, called
\* at :88-89): df[selected_cols] is a new frame, and fillna, astype, agg and
\* map each return a new object; nothing is assigned into df.
AfterCombineInPlace(df, selected_cols) ==
    [i \in 1..Len(df) |->
        [c \in DOMAIN df[i] |->
            IF c \in Range(selected_cols) THEN FillNa(df[i][c]) ELSE df[i][c]]]

AfterCombine(df, selected_cols) == df

\* matching.py:84-100 and :137-154: gating, text arrays, indexes, first tick
Start ==
    /\ pc = "start"
    /\ LET enabled == left_match_cols # <<>> /\ right_match_cols # <<>>
           left_cols == IF enabled THEN left_match_cols ELSE <<>>
           right_cols == IF enabled THEN right_match_cols ELSE <<>>
           ltv == combine_columns(left_df, left_cols)
           rtv == combine_columns(right_df, right_cols)
           total == Len(left_df)
       IN  \E left_kind \in CombineOutcomes(left_df, left_cols),
              right_kind \in CombineOutcomes(right_df, right_cols) :
             IF left_kind = "frame" \/ right_kind = "frame"
             THEN /\ pc' = "raised"
                  /\ result' = <<"AttributeError">>
                  /\ UNCHANGED <<indexes, decisions, rows, left_pos, progress_calls>>
             ELSE /\ similarity_enabled' = enabled
                  /\ left_text_values' = ltv
                  /\ right_text_values' = rtv
                  /\ total_rows' = total
                  /\ progress_calls' = IF progress_callback THEN <<<<0, total>>>> ELSE <<>>
                  /\ progress_update_every' =
                        IF progress_update_every_arg = None
                        THEN DefaultProgressStep(total) ELSE progress_update_every_arg
                  /\ IF enabled
                     THEN /\ token_index' = build_token_index(rtv)
                          /\ exact_index' = build_exact_index(rtv)
                          /\ use_rapidfuzz' = (prefer_rapidfuzz /\ rapidfuzz_fuzz)
                          /\ best_scores' = <<>>
                          /\ best_positions' = <<>>
                          /\ exact_match_count' = 0
                          /\ candidate_comparisons' = 0
                          /\ candidate_orders' = <<>>
                          /\ pc' = "match"
                     ELSE /\ UNCHANGED <<token_index, exact_index, use_rapidfuzz,
                                         decisions>>
                          /\ pc' = "positional"
                  /\ rows' = <<>>
                  /\ left_pos' = 0
                  /\ UNCHANGED result
    /\ LET enabled == left_match_cols # <<>> /\ right_match_cols # <<>>
       IN  /\ left_df' = AfterCombine(left_df, IF enabled THEN left_match_cols ELSE <<>>)
           /\ right_df' = AfterCombine(right_df,
                                       IF enabled THEN right_match_cols ELSE <<>>)
    /\ calls' = calls + 1
    /\ UNCHANGED <<selections, settings, nvars, pvars, tvars>>

\* matching.py:115
EmitPositionalOnlyWithRight(has_right_row, include) == has_right_row

EmitPositional(has_right_row, include) == has_right_row \/ include

\* matching.py:102-121: one iteration of the positional merge
PositionalRow ==
    /\ pc = "positional"
    /\ left_pos < total_rows
    /\ LET has_right_row == left_pos < Len(right_df)
           row == [left_pos |-> left_pos,
                   Left |-> OutputRecord(left_df, left_output_cols, left_pos),
                   Right |-> IF has_right_row
                             THEN OutputRecord(right_df, right_output_cols, left_pos)
                             ELSE NaRecord(right_output_cols)]
       IN  rows' = IF EmitPositional(has_right_row, include_unmatched)
                   THEN Append(rows, row) ELSE rows
    /\ progress_calls' = ProgressAfterRow
    /\ pc' = PcAfterRow
    /\ result' = ResultAfterRow
    /\ left_pos' = left_pos + 1
    /\ UNCHANGED <<inputs, calls, indexes, decisions, nvars, pvars, tvars>>

\* matching.py:123-135
ReturnDisabled ==
    /\ pc = "positional"
    /\ left_pos = total_rows
    /\ result' = [result_df |-> rows,
                  best_scores |-> <<>>,
                  best_positions |-> <<>>,
                  left_text |-> left_text_values,
                  right_text |-> right_text_values,
                  similarity_enabled |-> FALSE,
                  similarity_engine |-> "disabled",
                  exact_match_count |-> 0,
                  candidate_comparisons |-> 0,
                  left_match_columns_used |-> <<>>,
                  right_match_columns_used |-> <<>>]
    /\ pc' = "done"
    /\ UNCHANGED <<inputs, calls, indexes, decisions, rows, left_pos, progress_calls, nvars, pvars, tvars>>

\* matching.py:181
IsMatchedByScoreOnly(best_right_pos, best_score, thr) == FracLeq(thr, best_score)

IsMatched(best_right_pos, best_score, thr) ==
    best_right_pos # None /\ FracLeq(thr, best_score)

\* matching.py:182
EmitAlways(matched, include) == TRUE

EmitMatch(matched, include) == matched \/ include

\* matching.py:179
RecordPositionIfAny(positions, best_right_pos) ==
    IF best_right_pos = None THEN positions ELSE Append(positions, best_right_pos)

RecordPosition(positions, best_right_pos) == Append(positions, best_right_pos)

\* matching.py:178-201: record the decision of row left_pos, emit its output
\* row and tick the progress callback.
FinishRow(best_score, best_right_pos) ==
    /\ best_scores' = Append(best_scores, best_score)
    /\ best_positions' = RecordPosition(best_positions, best_right_pos)
    /\ LET matched == IsMatched(best_right_pos, best_score, threshold)
           row == [left_pos |-> left_pos,
                   Left |-> OutputRecord(left_df, left_output_cols, left_pos),
                   Right |-> IF matched /\ best_right_pos # None
                             THEN OutputRecord(right_df, right_output_cols, best_right_pos)
                             ELSE NaRecord(right_output_cols),
                   Similarity_Score |-> Round4(best_score),
                   Match_Status |-> IF matched THEN "Matched" ELSE "No match"]
       IN  rows' = IF EmitMatch(matched, include_unmatched)
                   THEN Append(rows, row) ELSE rows
    /\ progress_calls' = ProgressAfterRow
    /\ pc' = PcAfterRow
    /\ result' = ResultAfterRow
    /\ left_pos' = left_pos + 1
    /\ UNCHANGED <<inputs, calls, similarity_enabled, left_text_values, right_text_values,
                   use_rapidfuzz, total_rows, progress_update_every, nvars, pvars, tvars>>

\* defaultdict's index[key]: an absent key is added with the default value.
AfterSubscript(index, key, default) ==
    IF key \in DOMAIN index THEN index ELSE Put(index, key, default)

\* The index after `key in index` (matching.py:160) or index.get(key,
\* default) (matching.py:169): neither adds a key, the index being a
\* defaultdict or not.
AfterLookup(index, key, default) == index

\* The index after a lookup of each key of keys.
RECURSIVE AfterLookups(_, _, _)
AfterLookups(index, keys, default) ==
    IF keys = <<>> THEN index
    ELSE AfterLookups(AfterLookup(index, Head(keys), default), Tail(keys), default)

\* matching.py:160-163: the text of the row is a key of the exact index
ExactRow ==
    /\ pc = "match"
    /\ left_pos < total_rows
    /\ LET ltext == left_text_values[left_pos + 1]
       IN  /\ ltext \in DOMAIN exact_index
           /\ exact_match_count' = exact_match_count + 1
           /\ candidate_orders' = Append(candidate_orders, <<>>)
           /\ UNCHANGED candidate_comparisons
           /\ exact_index' = AfterLookup(exact_index, ltext, <<>>)
           /\ UNCHANGED token_index
           /\ FinishRow(One, exact_index[ltext][1])

\* matching.py:167-169: the union of the posting sets of the row's tokens;
\* token_index.get(token, set()) is empty for an unknown token.
Posting(index, token) == IF token \in DOMAIN index THEN index[token] ELSE {}

\* ---- CPython's set of small integers --------------------------------
\* candidate_positions and the posting sets are CPython sets of row
\* positions.  A position hashes to itself.  A set is an open-addressing
\* table of 8 slots or of a greater power of two; a key is probed at
\* hash mod size, then at the nine slots that follow when all nine lie
\* inside the table, then at (5 * slot + 1 + perturb) mod size with
\* perturb the hash shifted right by 5 bits at each such step; iteration
\* goes through the slots in ascending order.  No position is ever
\* removed, so every filled slot holds an element.
NewTable(size) == [slot \in 0..(size - 1) |-> None]

EmptyTable == NewTable(8)

Mask(table) == Cardinality(DOMAIN table) - 1

Used(table) == Cardinality({slot \in DOMAIN table : table[slot] # None})

\* The first slot from slot to slot + probes that is free or holds key.
RECURSIVE LinearSlot(_, _, _, _)
LinearSlot(table, key, slot, probes) ==
    IF table[slot] = None \/ table[slot] = key THEN slot
    ELSE IF probes = 0 THEN None
    ELSE LinearSlot(table, key, slot + 1, probes - 1)

RECURSIVE ProbeSlot(_, _, _, _)
ProbeSlot(table, key, slot, perturb) ==
    LET found == LinearSlot(table, key, slot,
                            IF slot + 9 <= Mask(table) THEN 9 ELSE 0)
    IN  IF found # None THEN found
        ELSE ProbeSlot(table, key,
                       (5 * slot + 1 + (perturb \div 32)) % (Mask(table) + 1),
                       perturb \div 32)

\* The elements of a set in iteration order.
TableOrderFrom(table, slot) ==
    SelectSeq([i \in 1..(Mask(table) + 1 - slot) |-> table[slot + i - 1]],
              LAMBDA key : key # None)

TableOrder(table) == TableOrderFrom(table, 0)

\* set_insert_clean: a key that the table does not hold yet
InsertClean(table, key) ==
    [table EXCEPT ![ProbeSlot(table, key, key % (Mask(table) + 1), key)] = key]

RECURSIVE InsertCleanAll(_, _)
InsertCleanAll(table, keys) ==
    IF keys = <<>> THEN table
    ELSE InsertCleanAll(InsertClean(table, Head(keys)), Tail(keys))

\* The size of the table after a resize: the first power of two from 8
\* that is greater than minused.
RECURSIVE SizeFor(_, _)
SizeFor(newsize, minused) ==
    IF newsize <= minused THEN SizeFor(2 * newsize, minused) ELSE newsize

\* set_table_resize: the elements are put into a new table in the order of
\* the old one; a table of 8 slots that stays at 8 slots is left as it is.
TableResize(table, minused) ==
    IF SizeFor(8, minused) = 8 /\ Mask(table) = 7 THEN table
    ELSE InsertCleanAll(NewTable(SizeFor(8, minused)), TableOrder(table))

\* set.add(key): as soon as three fifths of mask slots are filled the table
\* is resized, to hold four times its elements, or twice when it has more
\* than 50000 of them.
SetAdd(table, key) ==
    LET slot == ProbeSlot(table, key, key % (Mask(table) + 1), key)
        added == [table EXCEPT ![slot] = key]
    IN  IF table[slot] = key THEN table
        ELSE IF Used(added) * 5 < Mask(table) * 3 THEN added
        ELSE TableResize(added, IF Used(added) > 50000 THEN Used(added) * 2
                                ELSE Used(added) * 4)

RECURSIVE SetAddAll(_, _)
SetAddAll(table, keys) ==
    IF keys = <<>> THEN table ELSE SetAddAll(SetAdd(table, Head(keys)), Tail(keys))

\* A posting set as build_token_index fills it: positions added in
\* ascending order.
AscendingFrom(S, p, last) ==
    SelectSeq([i \in 1..(last - p + 1) |-> p + i - 1], LAMBDA q : q \in S)

PostingTable(S, nrows) == SetAddAll(EmptyTable, AscendingFrom(S, 0, nrows - 1))

\* candidate_positions = other, as an assignment would do
SetUpdateByAssignment(table, other) == other

\* set.update(other): nothing for an empty other.  Otherwise the table is
\* first resized, to hold twice the elements of both sets, when the
\* elements of both would fill three fifths of mask slots; then the table
\* of other is copied into an empty set of the same size, its elements
\* are put into an empty set of another size, and they are added one by
\* one, in the iteration order of other, to a set that has elements.
SetUpdate(table, other) ==
    IF Used(other) = 0 THEN table
    ELSE LET so == IF (Used(table) + Used(other)) * 5 >= Mask(table) * 3
                   THEN TableResize(table, (Used(table) + Used(other)) * 2)
                   ELSE table
         IN  IF Used(so) = 0 /\ Mask(so) = Mask(other) THEN other
             ELSE IF Used(so) = 0 THEN InsertCleanAll(so, TableOrder(other))
             ELSE SetAddAll(so, TableOrder(other))

\* matching.py:167-169: candidate_positions after the update with the posting
\* set of each token, the tokens taken in the order token_order.
RECURSIVE CandidateTable(_, _, _, _)
CandidateTable(token_order, index, nrows, table) ==
    IF token_order = <<>> THEN table
    ELSE CandidateTable(Tail(token_order), index, nrows,
                        SetUpdate(table, PostingTable(Posting(index, Head(token_order)), nrows)))

\* The orders in which a set can be enumerated.
Enumerations(S) ==
    {f \in [1..Cardinality(S) -> S] :
        \A i, j \in 1..Cardinality(S) : i # j => f[i] # f[j]}

\* The same loop with score >= best_score for the comparison of line 174.
RECURSIVE BestOfLastTie(_, _, _, _, _)
BestOfLastTie(order, ltext, rtexts, use_rf, best) ==
    IF order = <<>> THEN best
    ELSE LET right_pos == Head(order)
             score == similarity_ratio(ltext, rtexts[right_pos + 1], use_rf, rapidfuzz_fuzz)
         IN  BestOfLastTie(Tail(order), ltext, rtexts, use_rf,
                           IF FracLeq(best[1], score) THEN <<score, right_pos>> ELSE best)

\* As BestOf, but the first candidate is taken whatever its score.
RECURSIVE BestOfFirstAlways(_, _, _, _, _)
BestOfFirstAlways(order, ltext, rtexts, use_rf, best) ==
    IF order = <<>> THEN best
    ELSE LET right_pos == Head(order)
             score == similarity_ratio(ltext, rtexts[right_pos + 1], use_rf, rapidfuzz_fuzz)
         IN  BestOfFirstAlways(Tail(order), ltext, rtexts, use_rf,
                               IF best[2] = None \/ FracLess(best[1], score)
                               THEN <<score, right_pos>> ELSE best)

\* matching.py:171-176: keep the first candidate of the strictly greatest
\* score; best is <<best_score, best_right_pos>>.
RECURSIVE BestOf(_, _, _, _, _)
BestOf(order, ltext, rtexts, use_rf, best) ==
    IF order = <<>> THEN best
    ELSE LET right_pos == Head(order)
             score == similarity_ratio(ltext, rtexts[right_pos + 1], use_rf, rapidfuzz_fuzz)
         IN  BestOf(Tail(order), ltext, rtexts, use_rf,
                    IF FracLess(best[1], score) THEN <<score, right_pos>> ELSE best)

\* matching.py:164-176: the text of the row is not a key of the exact index.
\* ltokens is a set of strings: string hashes are salted per process, so the
\* order in which the for loop of line 168 takes the tokens is any order.
FuzzyRow ==
    /\ pc = "match"
    /\ left_pos < total_rows
    /\ LET ltext == left_text_values[left_pos + 1]
           ltokens == Range(Split(ltext))
       IN  /\ ltext \notin DOMAIN exact_index
           /\ \E token_order \in Enumerations(ltokens) :
                LET candidate_positions ==
                        CandidateTable(token_order, token_index,
                                       Len(right_text_values), EmptyTable)
                    order == TableOrder(candidate_positions)
                    best == BestOf(order, ltext, right_text_values, use_rapidfuzz,
                                   <<Zero, None>>)
                IN  /\ candidate_comparisons' = candidate_comparisons + Len(order)
                    /\ candidate_orders' = Append(candidate_orders, order)
                    /\ UNCHANGED exact_match_count
                    /\ exact_index' = AfterLookup(exact_index, ltext, <<>>)
                    /\ token_index' = AfterLookups(token_index, token_order, {})
                    /\ FinishRow(best[1], best[2])

\* matching.py:203-215
ReturnEnabled ==
    /\ pc = "match"
    /\ left_pos = total_rows
    /\ result' = [result_df |-> rows,
                  best_scores |-> best_scores,
                  best_positions |-> best_positions,
                  left_text |-> left_text_values,
                  right_text |-> right_text_values,
                  similarity_enabled |-> TRUE,
                  similarity_engine |-> IF use_rapidfuzz THEN "rapidfuzz" ELSE "difflib",
                  exact_match_count |-> exact_match_count,
                  candidate_comparisons |-> candidate_comparisons,
                  left_match_columns_used |-> left_match_cols,
                  right_match_columns_used |-> right_match_cols]
    /\ pc' = "done"
    /\ UNCHANGED <<inputs, calls, indexes, decisions, rows, left_pos, progress_calls, nvars, pvars, tvars>>

Next ==
    \/ Start
    \/ PositionalRow
    \/ ReturnDisabled
    \/ ExactRow
    \/ FuzzyRow
    \/ ReturnEnabled

Spec == Init /\ [][Next]_vars

\* ------------------------------------------------------------------------
\* Two calls of run_matching on the same two frames, each with its own
\* column selections: first both in progress at once, a thread switch
\* being possible between any two steps, then called again one after the
\* other.  The arguments are objects both calls hold; everything else of a
\* call is a local of run_matching (matching.py:84-158).
\* ------------------------------------------------------------------------
MaxCalls == 2

\* Datasets and column selections that give runs of every kind (positional,
\* exact, fuzzy with absent tokens, missing cells).
CallDatasets == {<<RowQ>>, <<RowP, RowQ>>, <<RowE>>}
CallSelections ==
    [left_match_cols : MatchColChoices, right_match_cols : MatchColChoices]

\* The call that is in the variables: its column selections and its locals.
ThisRun ==
    [left_match_cols |-> left_match_cols,
     right_match_cols |-> right_match_cols,
     similarity_enabled |-> similarity_enabled,
     left_text_values |-> left_text_values,
     right_text_values |-> right_text_values,
     token_index |-> token_index,
     exact_index |-> exact_index,
     use_rapidfuzz |-> use_rapidfuzz,
     total_rows |-> total_rows,
     progress_update_every |-> progress_update_every,
     best_scores |-> best_scores,
     best_positions |-> best_positions,
     exact_match_count |-> exact_match_count,
     candidate_comparisons |-> candidate_comparisons,
     candidate_orders |-> candidate_orders,
     rows |-> rows,
     left_pos |-> left_pos,
     progress_calls |-> progress_calls,
     pc |-> pc,
     result |-> result]

\* A call that has not begun.
NewRun(selection) ==
    [left_match_cols |-> selection.left_match_cols,
     right_match_cols |-> selection.right_match_cols,
     similarity_enabled |-> FALSE,
     left_text_values |-> <<>>,
     right_text_values |-> <<>>,
     token_index |-> EmptyDict,
     exact_index |-> EmptyDict,
     use_rapidfuzz |-> FALSE,
     total_rows |-> 0,
     progress_update_every |-> None,
     best_scores |-> <<>>,
     best_positions |-> <<>>,
     exact_match_count |-> 0,
     candidate_comparisons |-> 0,
     candidate_orders |-> <<>>,
     rows |-> <<>>,
     left_pos |-> 0,
     progress_calls |-> <<>>,
     pc |-> "start",
     result |-> <<>>]

\* The thread of a call goes on: its locals are what it left.
Resume(run) ==
    /\ left_match_cols' = run.left_match_cols
    /\ right_match_cols' = run.right_match_cols
    /\ similarity_enabled' = run.similarity_enabled
    /\ left_text_values' = run.left_text_values
    /\ right_text_values' = run.right_text_values
    /\ token_index' = run.token_index
    /\ exact_index' = run.exact_index
    /\ use_rapidfuzz' = run.use_rapidfuzz
    /\ total_rows' = run.total_rows
    /\ progress_update_every' = run.progress_update_every
    /\ best_scores' = run.best_scores
    /\ best_positions' = run.best_positions
    /\ exact_match_count' = run.exact_match_count
    /\ candidate_comparisons' = run.candidate_comparisons
    /\ candidate_orders' = run.candidate_orders
    /\ rows' = run.rows
    /\ left_pos' = run.left_pos
    /\ progress_calls' = run.progress_calls
    /\ pc' = run.pc
    /\ result' = run.result

InitRuns ==
    /\ left_df \in CallDatasets
    /\ right_df \in {<<RowQ>>, <<RowP>>}
    /\ \E mine \in CallSelections, its \in CallSelections :
          /\ left_match_cols = mine.left_match_cols
          /\ right_match_cols = mine.right_match_cols
          /\ other_run = NewRun(its)
    /\ active = 1
    /\ overlapped = FALSE
    /\ returned = <<>>
    /\ threshold = Half
    /\ include_unmatched = TRUE
    /\ prefer_rapidfuzz = FALSE
    /\ rapidfuzz_fuzz = FALSE
    /\ progress_callback = TRUE
    /\ progress_update_every_arg = None
    /\ InitLocals
    /\ npc = "idle" /\ nx = <<>> /\ ny = <<>> /\ nz = <<>>
    /\ PresetsIdle

InLoop(position) == position \in {"positional", "match"}

\* The interpreter leaves the thread of one call for the thread of the
\* other, which has not returned yet.
Switch ==
    /\ returned = <<>>
    /\ other_run.pc # "done"
    /\ Resume(other_run)
    /\ other_run' = ThisRun
    /\ active' = 3 - active
    /\ overlapped' = (overlapped \/ (InLoop(pc) /\ InLoop(other_run.pc)))
    /\ UNCHANGED <<frames, settings, calls, returned, nvars, pvars>>

\* One of the two calls is made again, alone, after both have returned.
\* Whatever the previous call left behind is still there: a call sees none
\* of it only if it assigns every local before it reads it.
NextRun ==
    /\ pc = "done"
    /\ other_run.pc = "done"
    /\ calls < 2 + MaxCalls
    /\ returned' = IF returned # <<>> THEN returned
                   ELSE IF active = 1 THEN <<result, other_run.result>>
                   ELSE <<other_run.result, result>>
    /\ \E again \in 1..2 :
          /\ active' = again
          /\ IF again = active
             THEN UNCHANGED <<selections, other_run>>
             ELSE /\ left_match_cols' = other_run.left_match_cols
                  /\ right_match_cols' = other_run.right_match_cols
                  /\ other_run' = [other_run EXCEPT
                                     !.left_match_cols = left_match_cols,
                                     !.right_match_cols = right_match_cols]
    /\ pc' = "start"
    /\ result' = <<>>
    /\ UNCHANGED <<frames, settings, indexes, decisions, rows, left_pos,
                   progress_calls, calls, overlapped, nvars, pvars>>

NextRuns == Next \/ Switch \/ NextRun

SpecRuns == InitRuns /\ [][NextRuns]_vars

\* ------------------------------------------------------------------------
\* normalize_text applied to a text and to its own result
\* ------------------------------------------------------------------------
InitNorm ==
    /\ nx \in TextsUpTo(MaxTextLen)
    /\ npc = "raw" /\ ny = <<>> /\ nz = <<>>
    /\ left_df = <<>> /\ right_df = <<>>
    /\ left_match_cols = <<>> /\ right_match_cols = <<>>
    /\ threshold = Zero
    /\ include_unmatched = FALSE
    /\ prefer_rapidfuzz = FALSE
    /\ rapidfuzz_fuzz = FALSE
    /\ progress_callback = FALSE
    /\ progress_update_every_arg = None
    /\ InitLocals
    /\ NoOtherRun
    /\ PresetsIdle

NormalizeOnce ==
    /\ npc = "raw"
    /\ ny' = normalize_text(nx)
    /\ npc' = "once"
    /\ UNCHANGED <<nx, nz, inputs, calls, indexes, decisions, pc, rows, left_pos,
                   progress_calls, result, pvars, tvars>>

NormalizeTwice ==
    /\ npc = "once"
    /\ nz' = normalize_text(ny)
    /\ npc' = "twice"
    /\ UNCHANGED <<nx, ny, inputs, calls, indexes, decisions, pc, rows, left_pos,
                   progress_calls, result, pvars, tvars>>

NextNorm == NormalizeOnce \/ NormalizeTwice

SpecNorm == InitNorm /\ [][NextNorm]_vars

\* ------------------------------------------------------------------------
\* The preset store (presets.py:9-38), used by several clients at once
\* ------------------------------------------------------------------------
PresetNames == {"n1", "n2"}
\* the value of "v" in the settings of a preset
Payloads == {"x", "yyyyyyyy"}
Requests ==
    {[kind |-> "upsert", name |-> n, payload |-> v] : n \in PresetNames, v \in Payloads}
        \cup {[kind |-> "delete", name |-> n, payload |-> "none"] : n \in PresetNames}
        \cup {[kind |-> "load", name |-> "none", payload |-> "none"]}

\* The store before the requests: one preset.
InitialPresets == Put(EmptyDict, "n1", "x")

\* del presets[name]
Remove(dict, name) == [k \in (DOMAIN dict) \ {name} |-> dict[k]]

\* load_presets (presets.py:9-18): the dict of the file, or the empty dict
\* when the bytes of the file are not one JSON document (JSONDecodeError).
load_presets(file) == IF file.whole THEN file.content ELSE EmptyDict

\* path.write_text, first half (presets.py:23): open(path, "w") truncates
\* the file.
Truncated(file) == EmptyFile

\* path.write_text, second half (presets.py:23): the document is written at
\* offset 0 of the file as it is now.  Over a file that another client has
\* made longer than the document since this client's truncation, the
\* bytes are the document followed by the tail of the other one: not one
\* JSON document.
Written(file, dict) ==
    IF DocBytes(dict) >= file.size THEN FileOf(dict)
    ELSE [content |-> dict, whole |-> FALSE, size |-> file.size]

InitPresets ==
    /\ preset_file = FileOf(InitialPresets)
    /\ request \in [Clients -> Requests]
    /\ ppc = [c \in Clients |-> "load"]
    /\ presets = [c \in Clients |-> EmptyDict]
    /\ left_df = <<>> /\ right_df = <<>>
    /\ left_match_cols = <<>> /\ right_match_cols = <<>>
    /\ threshold = Zero
    /\ include_unmatched = FALSE
    /\ prefer_rapidfuzz = FALSE
    /\ rapidfuzz_fuzz = FALSE
    /\ progress_callback = FALSE
    /\ progress_update_every_arg = None
    /\ InitLocals
    /\ NoOtherRun
    /\ npc = "idle" /\ nx = <<>> /\ ny = <<>> /\ nz = <<>>

runvars == <<inputs, indexes, decisions, pc, rows, left_pos, progress_calls,
             result, calls>>

\* load_presets() called on its own (app_page.py:39)
LoadOnly(c) ==
    /\ ppc[c] = "load"
    /\ request[c].kind = "load"
    /\ presets' = [presets EXCEPT ![c] = load_presets(preset_file)]
    /\ ppc' = [ppc EXCEPT ![c] = "done"]
    /\ UNCHANGED <<preset_file, request, runvars, nvars, tvars>>

\* upsert_preset, presets.py:27-28
UpsertLoad(c) ==
    /\ ppc[c] = "load"
    /\ request[c].kind = "upsert"
    /\ presets' = [presets EXCEPT
                     ![c] = Put(load_presets(preset_file), request[c].name,
                                request[c].payload)]
    /\ ppc' = [ppc EXCEPT ![c] = "open"]
    /\ UNCHANGED <<preset_file, request, runvars, nvars, tvars>>

\* delete_preset, presets.py:33-36
DeleteLoad(c) ==
    /\ ppc[c] = "load"
    /\ request[c].kind = "delete"
    /\ LET loaded == load_presets(preset_file)
       IN  IF request[c].name \notin DOMAIN loaded
           THEN /\ presets' = [presets EXCEPT ![c] = loaded]
                /\ ppc' = [ppc EXCEPT ![c] = "done"]
           ELSE /\ presets' = [presets EXCEPT ![c] = Remove(loaded, request[c].name)]
                /\ ppc' = [ppc EXCEPT ![c] = "open"]
    /\ UNCHANGED <<preset_file, request, runvars, nvars, tvars>>

\* save_presets, presets.py:22-23: the file is opened for writing
SaveOpen(c) ==
    /\ ppc[c] = "open"
    /\ preset_file' = Truncated(preset_file)
    /\ ppc' = [ppc EXCEPT ![c] = "write"]
    /\ UNCHANGED <<request, presets, runvars, nvars, tvars>>

\* save_presets, presets.py:23: the document is written and the file closed
SaveWrite(c) ==
    /\ ppc[c] = "write"
    /\ preset_file' = Written(preset_file, presets[c])
    /\ ppc' = [ppc EXCEPT ![c] = "done"]
    /\ UNCHANGED <<request, presets, runvars, nvars, tvars>>

NextPresets ==
    \E c \in Clients :
        \/ LoadOnly(c)
        \/ UpsertLoad(c)
        \/ DeleteLoad(c)
        \/ SaveOpen(c)
        \/ SaveWrite(c)

SpecPresets == InitPresets /\ [][NextPresets]_vars

\* ------------------------------------------------------------------------
\* The result summary of the page (app_page.py:108-138)
\* ------------------------------------------------------------------------
\* _store_result_state (app_page.py:108-117): the session state after a run
store_result_state(match_result, thr) ==
    [last_result_df |-> match_result.result_df,
     last_best_scores |-> match_result.best_scores,
     last_threshold |-> thr,
     last_similarity_enabled |-> match_result.similarity_enabled,
     last_similarity_engine |-> match_result.similarity_engine,
     last_exact_match_count |-> match_result.exact_match_count,
     last_candidate_comparisons |-> match_result.candidate_comparisons,
     last_left_match_cols_used |-> match_result.left_match_columns_used,
     last_right_match_cols_used |-> match_result.right_match_columns_used]

\* _render_results, app_page.py:133: "Matched Left Rows"
matched_count(session_state) ==
    Cardinality({i \in 1..Len(session_state.last_best_scores) :
                    FracLeq(session_state.last_threshold,
                            session_state.last_best_scores[i])})

\* ========================================================================
\* Properties
\* ========================================================================
\* Left rows already decided by a similarity-enabled run.
Enabled == similarity_enabled /\ pc \in {"match", "done"}
Decided == IF Enabled THEN 0..(left_pos - 1) ELSE {}
LeftText(i) == left_text_values[i + 1]
RightTexts == Range(right_text_values)
RowsOf(i) == {k \in 1..Len(rows) : rows[k].left_pos = i}
HasStatus(i, status) == \E k \in RowsOf(i) : rows[k].Match_Status = status
\* The step that processes left row left_pos of a similarity-enabled run.
RowStep == pc = "match" /\ left_pos < total_rows /\ left_pos' = left_pos + 1

\* C1 as stated: every left row whose normalized text equals the normalized
\* text of some right row, with no exception, gets score 1.0 and status
\* Matched, and its step increments the exact-match counter and leaves the
\* candidate-comparison counter alone.
C1_Original ==
    /\ [](\A i \in Decided :
            LeftText(i) \in RightTexts
                => best_scores[i + 1] = One /\ HasStatus(i, "Matched"))
    /\ [][(RowStep /\ LeftText(left_pos) \in RightTexts)
            => /\ exact_match_count' = exact_match_count + 1
               /\ candidate_comparisons' = candidate_comparisons]_vars

\* C1 amended: every left row whose normalized text is not empty and equals
\* the normalized text of some right row gets score 1.0 and status Matched
\* (every threshold of the model is <= 1.0), and its step increments the
\* exact-match counter and leaves the candidate-comparison counter alone.
C1_ExactFastPath ==
    /\ [](\A i \in Decided :
            (LeftText(i) # <<>> /\ LeftText(i) \in RightTexts)
                => best_scores[i + 1] = One /\ HasStatus(i, "Matched"))
    /\ [][(RowStep /\ LeftText(left_pos) # <<>> /\ LeftText(left_pos) \in RightTexts)
            => /\ exact_match_count' = exact_match_count + 1
               /\ candidate_comparisons' = candidate_comparisons]_vars

C1_Witness ==
    /\ pc = "done" /\ similarity_enabled
    /\ threshold = One
    /\ ~include_unmatched
    /\ \E i \in Decided :
          /\ LeftText(i) # <<>> /\ LeftText(i) \in RightTexts
          /\ HasStatus(i, "Matched")
    /\ exact_match_count = 1
    /\ candidate_comparisons > 0

\* C2: in a similarity-enabled run the Match_Status of a left row is
\* "Matched" exactly when the row has a best position and its best score is
\* at least the threshold, and "No match" otherwise.
C2_StatusIffPositionAndScore ==
    Enabled =>
        \A k \in 1..Len(rows) :
            LET i == rows[k].left_pos
                decided == best_positions[i + 1] # None
                           /\ FracLeq(threshold, best_scores[i + 1])
            IN  /\ rows[k].Match_Status \in {"Matched", "No match"}
                /\ rows[k].Match_Status = "Matched" <=> decided

C2_Witness ==
    /\ pc = "done" /\ similarity_enabled
    /\ \E i \in Decided : HasStatus(i, "Matched") /\ best_scores[i + 1] # One
    /\ \E i \in Decided : HasStatus(i, "No match") /\ best_positions[i + 1] # None

\* C3: in a similarity-enabled run a left row has an output row exactly when
\* it is Matched or include_unmatched is set; output rows are in left-row
\* order, at most one per left row, and never more than the left rows.
C3_EmittedIffMatchedOrIncluded ==
    Enabled =>
        /\ \A i \in Decided :
              LET matched == best_positions[i + 1] # None
                             /\ FracLeq(threshold, best_scores[i + 1])
              IN  /\ RowsOf(i) # {} <=> (matched \/ include_unmatched)
                  /\ Cardinality(RowsOf(i)) <= 1
        /\ \A k \in 1..Len(rows) : rows[k].left_pos \in Decided
        /\ \A k \in 1..(Len(rows) - 1) : rows[k].left_pos < rows[k + 1].left_pos
        /\ Len(rows) <= Len(left_df)

C3_Witness ==
    /\ pc = "done" /\ similarity_enabled
    /\ Len(left_df) = 2
    /\ Len(rows) = 1
    /\ rows[1].left_pos = 1
    /\ best_positions[1] # None

Disabled == (left_match_cols = <<>> \/ right_match_cols = <<>>) /\ pc # "start"

\* C4: when the left or the right match-column selection is empty the run
\* does no indexing and no scoring, emits a row for left row i exactly when
\* a right row exists at index i or include_unmatched is set, so that the
\* output row count depends on the two row counts and include_unmatched
\* only, never on threshold or prefer_rapidfuzz.
C4_PositionalMerge ==
    Disabled =>
        /\ token_index = EmptyDict /\ exact_index = EmptyDict
        /\ exact_match_count = 0 /\ candidate_comparisons = 0
        /\ best_scores = <<>> /\ best_positions = <<>>
        /\ \A i \in 0..(left_pos - 1) :
              RowsOf(i) # {} <=> (i < Len(right_df) \/ include_unmatched)
        /\ pc = "done" =>
              /\ result.exact_match_count = 0
              /\ result.candidate_comparisons = 0
              /\ result.best_scores = <<>>
              /\ result.best_positions = <<>>
              /\ Len(result.result_df) =
                    IF include_unmatched \/ Len(left_df) <= Len(right_df)
                    THEN Len(left_df) ELSE Len(right_df)

C4_Witness ==
    /\ pc = "done"
    /\ left_match_cols # <<>> /\ right_match_cols = <<>>
    /\ threshold = One /\ prefer_rapidfuzz /\ ~include_unmatched
    /\ Len(left_df) = 2 /\ Len(right_df) = 1
    /\ Len(result.result_df) = 1

\* C5: after a similarity-enabled run returns, the best-score list and the
\* best-position list hold one entry per left row, whatever the threshold
\* and include_unmatched.
C5_OneDecisionPerLeftRow ==
    (pc = "done" /\ left_match_cols # <<>> /\ right_match_cols # <<>>) =>
        /\ Len(result.best_scores) = Len(left_df)
        /\ Len(result.best_positions) = Len(left_df)
        /\ DOMAIN result.best_scores = 1..Len(left_df)
        /\ DOMAIN result.best_positions = 1..Len(left_df)

C5_Witness ==
    /\ pc = "done" /\ similarity_enabled
    /\ Len(left_df) = 2
    /\ ~include_unmatched
    /\ result.result_df = <<>>
    /\ \E i \in 1..2 : result.best_positions[i] = None
    /\ \E i \in 1..2 : result.best_positions[i] # None

UnionOfPostings(text) ==
    {p \in 0..(Len(right_text_values) - 1) :
        \E t \in Range(Split(text)) : t \in DOMAIN token_index /\ p \in token_index[t]}

RECURSIVE ExpectedComparisons(_)
ExpectedComparisons(n) ==
    IF n = 0 THEN 0
    ELSE ExpectedComparisons(n - 1)
         + (IF LeftText(n - 1) \in DOMAIN exact_index THEN 0
            ELSE Cardinality(UnionOfPostings(LeftText(n - 1))))

\* C6: the candidate-comparison counter is the sum, over the decided left
\* rows whose text is not a key of the exact index, of the size of the union
\* of the token-index posting sets of the row's tokens.
C6_ComparisonsCounter ==
    Enabled =>
        /\ candidate_comparisons = ExpectedComparisons(left_pos)
        /\ pc = "done" => result.candidate_comparisons = ExpectedComparisons(Len(left_df))

C6_Witness ==
    /\ pc = "done" /\ similarity_enabled
    /\ result.exact_match_count = 1
    /\ result.candidate_comparisons = 1
    /\ \E i \in Decided :
          /\ LeftText(i) \notin DOMAIN exact_index
          /\ Cardinality(Range(Split(LeftText(i)))) = 2
          /\ Cardinality(UnionOfPostings(LeftText(i))) = 1

\* Progress reporting.  Reported(k): the callback was called with k rows done.
Reported(k) == \E n \in 1..Len(progress_calls) : progress_calls[n] = <<k, Len(left_df)>>
LastCall == progress_calls[Len(progress_calls)]
DoneCountsInOrder ==
    /\ \A n \in 1..Len(progress_calls) :
          progress_calls[n][1] <= Len(left_df) /\ progress_calls[n][2] = Len(left_df)
    /\ \A n \in 1..(Len(progress_calls) - 1) :
          progress_calls[n][1] <= progress_calls[n + 1][1]
StepOfSpec == IF Len(left_df) \div 200 > 1 THEN Len(left_df) \div 200 ELSE 1

\* C7 as stated: for any number of left rows, zero included, the callback is
\* called once with (0, total) before processing, then at least once with
\* (total, total) at completion, and each time the processed-row count
\* reaches a multiple of max(total / 200, 1); the done counts never decrease
\* and never exceed total.
C7_Original ==
    (progress_callback /\ pc \in {"positional", "match", "done"}) =>
        /\ progress_calls # <<>>
        /\ progress_calls[1] = <<0, Len(left_df)>>
        /\ DoneCountsInOrder
        /\ \A k \in 1..left_pos : k % StepOfSpec = 0 => Reported(k)
        /\ pc = "done" => Len(progress_calls) >= 2 /\ LastCall = <<Len(left_df), Len(left_df)>>

\* The step of the run: the caller's, or the default one.
StepInUse ==
    IF progress_update_every_arg = None
    THEN DefaultProgressStep(Len(left_df)) ELSE progress_update_every_arg

\* The processed-row counts up to done that are multiples of the step, sign
\* ignored, or the number of left rows, in ascending order.
DueCounts(done) ==
    SelectSeq([k \in 1..done |-> k],
              LAMBDA k : k % Abs(StepInUse) = 0 \/ k = Len(left_df))

\* The calls of a run that has processed done rows.
ExpectedCalls(done) ==
    LET due == DueCounts(done)
    IN  <<<<0, Len(left_df)>>>> \o [n \in 1..Len(due) |-> <<due[n], Len(left_df)>>]

\* The run has its text arrays: it is in its loop, has returned, or was
\* ended by the division by a step of 0.
Combined ==
    \/ pc \in {"positional", "match", "done"}
    \/ pc = "raised" /\ result = <<"ZeroDivisionError">>

\* C7 amended: in a run with a progress callback that has its text arrays,
\* the callback is called once with (0, total) before processing.  The step
\* is progress_update_every as the caller passes it, and max(total // 200, 1)
\* when the caller passes none.  With a step other than 0 the run does not
\* raise and the calls that follow are, in order, one per processed-row
\* count that is a multiple of the step (sign ignored) or equals total, and
\* no other: with at least one left row the last call of a finished run is
\* (total, total), with zero left rows the (0, 0) call is the only call.
\* With a step of 0 the run raises ZeroDivisionError when its first row is
\* processed, the (0, total) call being its only call, and finishes only
\* when there is no left row.  The done counts never decrease and never
\* exceed total.  A run that is ended while it combines its columns has
\* made no call: it has match columns on both sides and a dataset without
\* rows.
C7_ProgressPolicy ==
    /\ (progress_callback /\ Combined) =>
          /\ progress_calls # <<>>
          /\ progress_calls[1] = <<0, Len(left_df)>>
          /\ DoneCountsInOrder
          /\ IF StepInUse # 0
             THEN /\ pc # "raised"
                  /\ progress_calls = ExpectedCalls(left_pos)
                  /\ (pc = "done" /\ Len(left_df) >= 1) =>
                        /\ Len(progress_calls) >= 2
                        /\ LastCall = <<Len(left_df), Len(left_df)>>
                  /\ Len(left_df) = 0 => progress_calls = <<<<0, 0>>>>
             ELSE /\ progress_calls = <<<<0, Len(left_df)>>>>
                  /\ left_pos <= 1
                  /\ left_pos = 1 <=> pc = "raised"
                  /\ pc = "done" => Len(left_df) = 0
    /\ (progress_callback /\ pc = "raised" /\ ~Combined) =>
          /\ result = <<"AttributeError">>
          /\ progress_calls = <<>>
          /\ left_match_cols # <<>> /\ right_match_cols # <<>>
          /\ Len(left_df) = 0 \/ Len(right_df) = 0

\* A finished run on the long left dataset with the default step, which
\* is above 1: a call at the first multiple of the step, before the end,
\* none at the count before it, and the last call at completion.
C7_Witness ==
    /\ pc = "done" /\ progress_callback
    /\ progress_update_every_arg = None
    /\ Len(left_df) = ManyLeftRows
    /\ progress_update_every > 1
    /\ progress_calls[2] = <<progress_update_every, ManyLeftRows>>
    /\ ~Reported(1)
    /\ Len(progress_calls) > 3
    /\ LastCall = <<ManyLeftRows, ManyLeftRows>>

ReferenceDecision(i) ==
    IF LeftText(i) \in DOMAIN exact_index
    THEN <<One, exact_index[LeftText(i)][1]>>
    ELSE LET token_order == CHOOSE f \in Enumerations(Range(Split(LeftText(i)))) : TRUE
             table == CandidateTable(token_order, token_index,
                                     Len(right_text_values), EmptyTable)
         IN  BestOf(TableOrder(table), LeftText(i), right_text_values,
                    use_rapidfuzz, <<Zero, None>>)

\* C8: two runs on identical inputs return identical results, ties for the
\* top score included: every run returns what the run that takes each
\* row's tokens in one fixed order returns.
C8_Deterministic ==
    (pc = "done" /\ similarity_enabled) =>
        \A i \in 0..(Len(left_df) - 1) :
            /\ result.best_scores[i + 1] = ReferenceDecision(i)[1]
            /\ result.best_positions[i + 1] = ReferenceDecision(i)[2]

IsNormalized(text) ==
    /\ \A i \in 1..Len(text) : text[i] \in {"a", "b", " "}
    /\ text # <<>> => text[1] # " " /\ text[Len(text)] # " "
    /\ \A i \in 1..(Len(text) - 1) : ~(text[i] = " " /\ text[i + 1] = " ")

\* C9: normalize_text is idempotent, and its result is stripped, lower-case
\* and has every whitespace run collapsed to one blank.
C9_NormalizeIdempotent ==
    /\ npc \in {"once", "twice"} => IsNormalized(ny)
    /\ npc = "twice" => nz = ny

C9_Witness ==
    /\ npc = "twice"
    /\ nx = <<"B", "\t", " ">>
    /\ ny = <<"b">>
    /\ nz = <<"b">>

\* C10: in a similarity-enabled run a left row whose normalized text is
\* empty gets score 0.0 and no best position, whatever the right rows are,
\* right rows of empty text included.
C10_EmptyLeftTextHasNoMatch ==
    Enabled =>
        \A i \in Decided :
            LeftText(i) = <<>>
                => best_scores[i + 1] = Zero /\ best_positions[i + 1] = None

C10_Witness ==
    /\ pc = "done" /\ similarity_enabled
    /\ \E i \in Decided : LeftText(i) = <<>> /\ best_positions[i + 1] = None
    /\ <<>> \in RightTexts
    /\ exact_index # EmptyDict

\* The exact index of a similarity-enabled run, once built.
Indexed == similarity_enabled /\ pc \in {"match", "done"}
RightPositions == 0..(Len(right_text_values) - 1)
PositionsOfText(text) == {p \in RightPositions : right_text_values[p + 1] = text}
IsAscendingListOf(list, S) ==
    /\ {list[k] : k \in 1..Len(list)} = S
    /\ \A k \in 1..(Len(list) - 1) : list[k] < list[k + 1]

\* C11 as stated: the exact index has a key for the normalized text of every
\* right row, the empty text included, each mapped to the ascending list of
\* the positions of that text, so that every right-row position is in
\* exactly one list.
C11_Original ==
    Indexed =>
        /\ DOMAIN exact_index = RightTexts
        /\ \A text \in DOMAIN exact_index :
              IsAscendingListOf(exact_index[text], PositionsOfText(text))
        /\ \A p \in RightPositions :
              Cardinality({text \in DOMAIN exact_index :
                            \E k \in 1..Len(exact_index[text]) : exact_index[text][k] = p}) = 1

\* C11 amended: the exact index has a key for every non-empty normalized
\* text of a right row and no other key, each mapped to the ascending list
\* of the positions of that text; a position of non-empty text is in exactly
\* one list and a position of empty text is in none.
C11_ExactIndexContents ==
    Indexed =>
        /\ DOMAIN exact_index = RightTexts \ {<<>>}
        /\ \A text \in DOMAIN exact_index :
              IsAscendingListOf(exact_index[text], PositionsOfText(text))
        /\ \A p \in RightPositions :
              Cardinality({text \in DOMAIN exact_index :
                            \E k \in 1..Len(exact_index[text]) : exact_index[text][k] = p})
                = IF right_text_values[p + 1] = <<>> THEN 0 ELSE 1

C11_Witness ==
    /\ Indexed
    /\ <<>> \in RightTexts
    /\ \E text \in DOMAIN exact_index : Len(exact_index[text]) = 2

\* The ratio the run computes for left row i and the candidate at right_pos.
RatioOf(i, right_pos) ==
    similarity_ratio(LeftText(i), right_text_values[right_pos + 1], use_rapidfuzz,
                     rapidfuzz_fuzz)
\* Decided rows that took the blocked fuzzy path with at least one candidate.
FuzzyDecided == {i \in Decided : LeftText(i) \notin DOMAIN exact_index
                                 /\ candidate_orders[i + 1] # <<>>}

\* C12 as stated: on the blocked fuzzy path the best score of a left row is
\* the greatest ratio over its candidates and the best position is the first
\* candidate, in the order of enumeration, whose ratio is that greatest
\* ratio.
C12_Original ==
    \A i \in FuzzyDecided :
        LET order == candidate_orders[i + 1]
        IN  /\ \E k \in 1..Len(order) : RatioOf(i, order[k]) = best_scores[i + 1]
            /\ \A k \in 1..Len(order) : FracLeq(RatioOf(i, order[k]), best_scores[i + 1])
            /\ \E k \in 1..Len(order) :
                  /\ order[k] = best_positions[i + 1]
                  /\ RatioOf(i, order[k]) = best_scores[i + 1]
                  /\ \A j \in 1..(k - 1) : RatioOf(i, order[j]) # best_scores[i + 1]

\* C12 amended: on the blocked fuzzy path the best score of a left row is the
\* greatest ratio over its candidates; when that ratio is greater than 0.0
\* the best position is the first candidate, in the order of enumeration,
\* whose ratio is that greatest ratio, a later candidate of equal ratio never
\* replacing it; when every candidate has ratio 0.0 the row has no best
\* position.
C12_FirstOfTheGreatest ==
    \A i \in FuzzyDecided :
        LET order == candidate_orders[i + 1]
        IN  /\ \E k \in 1..Len(order) : RatioOf(i, order[k]) = best_scores[i + 1]
            /\ \A k \in 1..Len(order) : FracLeq(RatioOf(i, order[k]), best_scores[i + 1])
            /\ IF best_scores[i + 1] = Zero
               THEN best_positions[i + 1] = None
               ELSE \E k \in 1..Len(order) :
                      /\ order[k] = best_positions[i + 1]
                      /\ RatioOf(i, order[k]) = best_scores[i + 1]
                      /\ \A j \in 1..(k - 1) : RatioOf(i, order[j]) # best_scores[i + 1]

\* Two candidates of equal ratio, enumerated against position order, the
\* first enumerated kept.
C12_Witness ==
    /\ pc = "done"
    /\ \E i \in FuzzyDecided :
          /\ candidate_orders[i + 1] = <<LongRightRows - 1, 0>>
          /\ RatioOf(i, 0) = RatioOf(i, LongRightRows - 1)
          /\ best_positions[i + 1] = LongRightRows - 1


\* What a run on the arguments of the current call builds and counts.
OwnIndexes ==
    /\ left_text_values = combine_columns(left_df, left_match_cols)
    /\ right_text_values = combine_columns(right_df, right_match_cols)
    /\ token_index = build_token_index(right_text_values)
    /\ exact_index = build_exact_index(right_text_values)
OwnCounters ==
    /\ Len(best_scores) = left_pos
    /\ Len(best_positions) = left_pos
    /\ exact_match_count =
          Cardinality({i \in Decided : LeftText(i) \in DOMAIN exact_index})
    /\ candidate_comparisons = ExpectedComparisons(left_pos)
    /\ \A k \in 1..Len(rows) : rows[k].left_pos \in Decided
OwnResult ==
    /\ Len(result.result_df) <= Len(left_df)
    /\ result.similarity_enabled = similarity_enabled
    /\ result.left_text = left_text_values
    /\ result.right_text = right_text_values
    /\ IF similarity_enabled
       THEN /\ result.best_scores = best_scores
            /\ result.exact_match_count = exact_match_count
            /\ result.candidate_comparisons = candidate_comparisons
       ELSE /\ result.best_scores = <<>>
            /\ result.exact_match_count = 0
            /\ result.candidate_comparisons = 0

\* A call made alone returns what the same call returned when the two calls
\* were in progress at once.
SameAlone == (returned # <<>> /\ pc = "done") => result = returned[active]

\* C13: no step of a call changes the two frames, and no step of its own
\* changes its column selections or settings; once built, the two indexes
\* and the two text arrays are not modified by any step of the call, lookups
\* of absent texts and tokens included; whatever the other call has done in
\* between and whatever an earlier call left, the indexes, the counters, the
\* lists and the result of a call are those of its own arguments; and a call
\* returns the same result alone as with the other call in progress.
C13_StatelessAndReadOnly ==
    /\ [][UNCHANGED frames]_vars
    /\ [][(active' = active /\ pc # "done") => UNCHANGED <<selections, settings>>]_vars
    /\ [][(active' = active /\ pc = "match") =>
            UNCHANGED <<token_index, exact_index, left_text_values,
                        right_text_values>>]_vars
    /\ []((Indexed => OwnIndexes) /\ (Enabled => OwnCounters)
          /\ (pc = "done" => OwnResult))
    /\ []SameAlone

\* A call that has returned alone, after the two calls were in their loops
\* together, whose fuzzy row looked up a text and a token that its indexes
\* do not hold, and whose result is the one it returned then.
C13_Witness ==
    /\ pc = "done" /\ similarity_enabled
    /\ overlapped
    /\ calls = 2 + MaxCalls
    /\ returned # <<>> /\ result = returned[active]
    /\ returned[1] # returned[2]
    /\ token_index # EmptyDict /\ exact_index # EmptyDict
    /\ \E i \in Decided :
          /\ LeftText(i) \notin DOMAIN exact_index
          /\ \E t \in Range(Split(LeftText(i))) : t \notin DOMAIN token_index
          /\ \E t \in Range(Split(LeftText(i))) : t \in DOMAIN token_index
    /\ exact_match_count = 0

\* The store after one request served alone.
Served(dict, req) ==
    IF req.kind = "upsert" THEN Put(dict, req.name, req.payload)
    ELSE IF req.kind = "delete" THEN Remove(dict, req.name)
    ELSE dict
RECURSIVE ServedInOrder(_, _)
ServedInOrder(dict, client_order) ==
    IF client_order = <<>> THEN dict
    ELSE ServedInOrder(Served(dict, request[Head(client_order)]), Tail(client_order))
SequentialStores ==
    {ServedInOrder(InitialPresets, client_order) : client_order \in Enumerations(Clients)}
AllServed == \A c \in Clients : ppc[c] = "done"
ReadsFile == \E c \in Clients : ppc[c] = "load" /\ ppc'[c] # "load"

\* C14: the preset store is read and written as a whole: when concurrent
\* requests have all been served the file is one document, the store that
\* serving them in some sequential order gives, and no load reads a file
\* that is not one complete document.
C14_AtomicStore ==
    /\ [](AllServed => preset_file.whole /\ preset_file.content \in SequentialStores)
    /\ [][ReadsFile => preset_file.whole]_vars

\* C15: in a similarity-enabled run every left row that has a best position
\* has a best score greater than 0.0, and on the fuzzy path the ratio of that
\* position is not 0.0; a row without a best position has status "No match",
\* whatever the threshold, 0.0 included, and however many candidates it had.
C15_PositionOnlyWithPositiveScore ==
    Enabled =>
        \A i \in Decided :
            /\ best_positions[i + 1] # None => FracLess(Zero, best_scores[i + 1])
            /\ (i \in FuzzyDecided /\ best_positions[i + 1] # None)
                  => RatioOf(i, best_positions[i + 1]) # Zero
            /\ best_positions[i + 1] = None => ~HasStatus(i, "Matched")

\* A row whose only candidate has ratio 0.0: compared, no position kept, and
\* "No match" at threshold 0.0.
C15_Witness ==
    /\ pc = "done" /\ similarity_enabled
    /\ threshold = Zero
    /\ \E i \in FuzzyDecided :
          /\ candidate_comparisons > 0
          /\ \A k \in 1..Len(candidate_orders[i + 1]) :
                RatioOf(i, candidate_orders[i + 1][k]) = Zero
          /\ best_positions[i + 1] = None
          /\ HasStatus(i, "No match")


\* The left rows that the returned run classified as Matched.
ClassifiedMatched ==
    {i \in 1..Len(result.best_scores) :
        IsMatched(result.best_positions[i], result.best_scores[i], threshold)}

\* C16: once a similarity-enabled run is stored, the "Matched Left Rows"
\* count of the result summary is the number of left rows that the run
\* classified as Matched, whatever the threshold.
C16_MatchedCountIsEngineCount ==
    (pc = "done" /\ similarity_enabled) =>
        matched_count(store_result_state(result, threshold))
            = Cardinality(ClassifiedMatched)

====
